---- MODULE Spec2Model ----
(***************************************************************************)
(* Model of classify_spam_workflow (src/main.py): one run of the spam      *)
(* classification pipeline.  The coroutine is cut at its three await       *)
(* points (the listing call, the per-message fetch call, the LLM call);    *)
(* pc names the position of the run, the remaining variables are the       *)
(* locals of the coroutine plus the call log the collaborators observe.    *)
(*                                                                         *)
(* Representation choices:                                                 *)
(*   - a Python dict is a function; a key that is missing is not in its    *)
(*     DOMAIN (dict.get is DictGet);                                       *)
(*   - NoneVal stands for None and, in a fetched field, for any value that *)
(*     is not a str (EmailInfo's str fields reject it);                    *)
(*   - spam_percentage is held in tenths of a percent (66.7 is 667);       *)
(*   - of an EmailClassification only is_spam is kept.                     *)
(***************************************************************************)
EXTENDS Integers, Sequences, FiniteSets, TLC

VARIABLES pc, gmail, messages, idx, email_result, email_info, emails,
          spam_count, not_spam_count, results, error,
          inflight, listCalls, fetchCalls, classifyCalls, outcome

vars == <<pc, gmail, messages, idx, email_result, email_info, emails,
          spam_count, not_spam_count, results, error,
          inflight, listCalls, fetchCalls, classifyCalls, outcome>>

(* The max_emails argument: the listing returns at most this many entries. *)
max_emails == 2

NoneVal == "<None>"

(* The empty dict; also the value of a local that is not bound yet. *)
EmptyDict == [k \in {} |-> NoneVal]

(* ---- the collaborators' possible answers ------------------------------ *)

(* A list entry: a dict whose "id" is missing, empty or a message id. *)
MessageIds == {"a", "b"}

Entries == {EmptyDict} \cup {[id |-> v] : v \in {""} \cup MessageIds}

SeqsUpTo(S, n) == UNION {[1..k -> S] : k \in 0..n}

(* Results of gmail_list_messages: without a "messages" key, or with one. *)
ListResults ==
  {EmptyDict} \cup {[messages |-> ms] : ms \in SeqsUpTo(Entries, max_emails)}

FieldKeys == {"subject", "from", "snippet"}

FieldValue(k) ==
  CASE k = "subject" -> "Hello"
    [] k = "from" -> "x@y.z"
    [] OTHER -> "preview"

(* Results of gmail_get_message: every field missing, a str, or not a str. *)
MessageResults ==
  UNION {[K -> {"str", NoneVal}] : K \in SUBSET FieldKeys}

Concrete(r) ==
  [k \in DOMAIN r |-> IF r[k] = "str" THEN FieldValue(k) ELSE NoneVal]

(* ---- pure helpers ------------------------------------------------------ *)

(* dict.get(key, default) *)
DictGet(d, k, default) == IF k \in DOMAIN d THEN d[k] ELSE default

(* Variant: `email_id is None` instead of `not email_id`. *)
Falsy_isNone(v) == v = NoneVal

(* `not email_id`: None and the empty string are falsy. *)
Falsy(v) == v = NoneVal \/ v = ""

(* message.get("id") of the entry at position i (1-based, as enumerate). *)
EmailId(i) == DictGet(messages[i], "id", NoneVal)

(* email_result.get("subject", "(no subject)") and the two like it. *)
Subject_wrongDefault(r) == DictGet(r, "subject", "unknown")

Subject(r) == DictGet(r, "subject", "(no subject)")

FromAddress(r) == DictGet(r, "from", "unknown")

Snippet(r) == DictGet(r, "snippet", "")

(* pydantic accepts a str field only when the value is a str. *)
IsStr(v) == v # NoneVal

(* classification: EmailClassification | None = None *)
NoClassification == EmptyDict

EmailInfo(id, subject, from_address, snippet) ==
  [email_id |-> id, subject |-> subject, from_address |-> from_address,
   snippet |-> snippet, classification |-> NoClassification]

ValidEmailInfo(subject, from_address, snippet) ==
  IsStr(subject) /\ IsStr(from_address) /\ IsStr(snippet)

CountSpam(c, is_spam) == IF is_spam THEN c + 1 ELSE c

(* Variant: the else branch of the count update is lost. *)
CountNotSpam_noElse(c, is_spam) == c

CountNotSpam(c, is_spam) == IF is_spam THEN c ELSE c + 1

(* Variant: the record is inserted at the front. *)
AppendEmail_front(es, e) == <<e>> \o es

AppendEmail(es, e) == Append(es, e)

(* Variant: the except handler breaks out of the loop. *)
NextAfterError_break(i) == Len(messages) + 1

(* Variant: the except handler tries the same entry again. *)
NextAfterError_retry(i) == i

(* `continue` in the except handler: on to the next entry. *)
NextAfterError(i) == i + 1

(* Variant: the except handler logs and falls through to the summary. *)
ListingExcept_swallow == "Summarizing"

(* The except handler of the listing call re-raises. *)
ListingExcept == "Failed"

(* round(x, 1) of x = s / n * 100, in tenths: nearest, ties to even. *)
Round1(s, n) ==
  LET q == (1000 * s) \div n
      r == (1000 * s) % n
  IN  IF 2 * r < n THEN q
      ELSE IF 2 * r > n THEN q + 1
      ELSE IF q % 2 = 0 THEN q ELSE q + 1

SpamPercentage(s, es) == IF es # <<>> THEN Round1(s, Len(es)) ELSE 0

Projection(e) ==
  [email_id |-> e.email_id, subject |-> e.subject, from |-> e.from_address,
   is_spam |-> IF e.classification # NoClassification THEN e.classification.is_spam
               ELSE NoneVal]

(* The summary returned when the listing is empty. *)
EmptySummary ==
  [total_processed |-> 0, spam_count |-> 0, not_spam_count |-> 0,
   emails |-> <<>>]

Summary(es, s, ns) ==
  [total_processed |-> Len(es), spam_count |-> s, not_spam_count |-> ns,
   spam_percentage |-> SpamPercentage(s, es),
   emails |-> [i \in 1..Len(es) |-> Projection(es[i])]]

(* ---- the event loop's view of the awaited calls ------------------------ *)

IssueCall(fl, c) == fl \cup {c}

(* Variant: the call is started as a task and never awaited. *)
CompleteCall_notAwaited(fl, c) == fl

CompleteCall(fl, c) == fl \ {c}

ListCall == <<"gmail_list_messages", 0>>
GetCall(i) == <<"gmail_get_message", i>>
LlmCall(i) == <<"llm.run", i>>

(* ---- the run ----------------------------------------------------------- *)

Init ==
  /\ pc = "Idle"
  /\ gmail \in BOOLEAN
  /\ messages = <<>>
  /\ idx = 0
  /\ email_result = EmptyDict
  /\ email_info = EmptyDict
  /\ emails = <<>>
  /\ spam_count = 0
  /\ not_spam_count = 0
  /\ results = EmptyDict
  /\ error = "none"
  /\ inflight = {}
  /\ listCalls = 0
  /\ fetchCalls = <<>>
  /\ classifyCalls = <<>>
  /\ outcome = <<>>

(* gmail is not configured: ValueError before any call. *)
NotConfigured ==
  /\ pc = "Idle"
  /\ ~gmail
  /\ pc' = "Failed"
  /\ error' = "ValueError"
  /\ UNCHANGED <<gmail, messages, idx, email_result, email_info, emails,
                 spam_count, not_spam_count, results, inflight, listCalls,
                 fetchCalls, classifyCalls, outcome>>

(* await gmail.call_tool("gmail_list_messages", ...) is issued. *)
ListStart ==
  /\ pc = "Idle"
  /\ gmail
  /\ inflight' = IssueCall(inflight, ListCall)
  /\ listCalls' = listCalls + 1
  /\ pc' = "Listing"
  /\ UNCHANGED <<gmail, messages, idx, email_result, email_info, emails,
                 spam_count, not_spam_count, results, error,
                 fetchCalls, classifyCalls, outcome>>

(* The listing call raises: logged and re-raised. *)
ListRaise ==
  /\ pc = "Listing"
  /\ inflight' = CompleteCall(inflight, ListCall)
  /\ pc' = ListingExcept
  /\ error' = "ListingError"
  /\ UNCHANGED <<gmail, messages, idx, email_result, email_info, emails,
                 spam_count, not_spam_count, results, listCalls,
                 fetchCalls, classifyCalls, outcome>>

(* The listing call returns list_result. *)
ListReturn(list_result) ==
  /\ pc = "Listing"
  /\ inflight' = CompleteCall(inflight, ListCall)
  /\ messages' = DictGet(list_result, "messages", <<>>)
  /\ IF messages' = <<>>
       THEN /\ results' = EmptySummary
            /\ pc' = "Done"
            /\ UNCHANGED <<idx, fetchCalls, classifyCalls, outcome>>
       ELSE /\ pc' = "Loop"
            /\ idx' = 1
            /\ fetchCalls' = [i \in 1..Len(messages') |-> 0]
            /\ classifyCalls' = [i \in 1..Len(messages') |-> 0]
            /\ outcome' = [i \in 1..Len(messages') |-> "pending"]
            /\ UNCHANGED results
  /\ UNCHANGED <<gmail, email_result, email_info, emails, spam_count,
                 not_spam_count, error, listCalls>>

(* `if not email_id: continue` *)
SkipEntry ==
  /\ pc = "Loop"
  /\ idx <= Len(messages)
  /\ Falsy(EmailId(idx))
  /\ idx' = idx + 1
  /\ outcome' = [outcome EXCEPT ![idx] = "no_id"]
  /\ UNCHANGED <<pc, gmail, messages, email_result, email_info, emails,
                 spam_count, not_spam_count, results, error, inflight,
                 listCalls, fetchCalls, classifyCalls>>

(* await gmail.call_tool("gmail_get_message", ...) is issued. *)
FetchStart ==
  /\ pc = "Loop"
  /\ idx <= Len(messages)
  /\ ~Falsy(EmailId(idx))
  /\ inflight' = IssueCall(inflight, GetCall(idx))
  /\ fetchCalls' = [fetchCalls EXCEPT ![idx] = @ + 1]
  /\ pc' = "Fetching"
  /\ UNCHANGED <<gmail, messages, idx, email_result, email_info, emails,
                 spam_count, not_spam_count, results, error, listCalls,
                 classifyCalls, outcome>>

(* The fetch call raises an Exception: logged, continue. *)
FetchRaise ==
  /\ pc = "Fetching"
  /\ inflight' = CompleteCall(inflight, GetCall(idx))
  /\ outcome' = [outcome EXCEPT ![idx] = "fetch_failed"]
  /\ idx' = NextAfterError(idx)
  /\ pc' = "Loop"
  /\ UNCHANGED <<gmail, messages, email_result, email_info, emails,
                 spam_count, not_spam_count, results, error, listCalls,
                 fetchCalls, classifyCalls>>

(* The fetch call returns r: the fields are extracted, EmailInfo is built
   (or rejects a field that is not a str) and the LLM call is issued. *)
FetchReturn(r) ==
  /\ pc = "Fetching"
  /\ email_result' = r
  /\ LET subject == Subject(r)
         from_address == FromAddress(r)
         snippet == Snippet(r)
     IN  IF ValidEmailInfo(subject, from_address, snippet)
           THEN /\ email_info' =
                     EmailInfo(EmailId(idx), subject, from_address, snippet)
                /\ inflight' = IssueCall(CompleteCall(inflight, GetCall(idx)),
                                         LlmCall(idx))
                /\ classifyCalls' = [classifyCalls EXCEPT ![idx] = @ + 1]
                /\ outcome' = [outcome EXCEPT ![idx] = "fetched"]
                /\ pc' = "Classifying"
                /\ UNCHANGED idx
           ELSE /\ inflight' = CompleteCall(inflight, GetCall(idx))
                /\ outcome' = [outcome EXCEPT ![idx] = "invalid"]
                /\ idx' = NextAfterError(idx)
                /\ pc' = "Loop"
                /\ UNCHANGED <<email_info, classifyCalls>>
  /\ UNCHANGED <<gmail, messages, emails, spam_count, not_spam_count,
                 results, error, listCalls, fetchCalls>>

(* The LLM call raises an Exception: logged, continue. *)
ClassifyRaise ==
  /\ pc = "Classifying"
  /\ inflight' = CompleteCall(inflight, LlmCall(idx))
  /\ outcome' = [outcome EXCEPT ![idx] = "classify_failed"]
  /\ idx' = NextAfterError(idx)
  /\ pc' = "Loop"
  /\ UNCHANGED <<gmail, messages, email_result, email_info, emails,
                 spam_count, not_spam_count, results, error, listCalls,
                 fetchCalls, classifyCalls>>

(* The LLM call returns a classification: counted and recorded. *)
ClassifyReturn(is_spam) ==
  /\ pc = "Classifying"
  /\ inflight' = CompleteCall(inflight, LlmCall(idx))
  /\ email_info' = [email_info EXCEPT
                      !.classification = [is_spam |-> is_spam]]
  /\ spam_count' = CountSpam(spam_count, is_spam)
  /\ not_spam_count' = CountNotSpam(not_spam_count, is_spam)
  /\ emails' = AppendEmail(emails, email_info')
  /\ outcome' = [outcome EXCEPT ![idx] = "recorded"]
  /\ idx' = idx + 1
  /\ pc' = "Loop"
  /\ UNCHANGED <<gmail, messages, email_result, results, error, listCalls,
                 fetchCalls, classifyCalls>>

(* The for loop is exhausted. *)
LoopExit ==
  /\ pc = "Loop"
  /\ idx > Len(messages)
  /\ pc' = "Summarizing"
  /\ UNCHANGED <<gmail, messages, idx, email_result, email_info, emails,
                 spam_count, not_spam_count, results, error, inflight,
                 listCalls, fetchCalls, classifyCalls, outcome>>

(* results = {...}; return results *)
Summarize ==
  /\ pc = "Summarizing"
  /\ results' = Summary(emails, spam_count, not_spam_count)
  /\ pc' = "Done"
  /\ UNCHANGED <<gmail, messages, idx, email_result, email_info, emails,
                 spam_count, not_spam_count, error, inflight, listCalls,
                 fetchCalls, classifyCalls, outcome>>

(* The invoking environment cancels the run at an await: CancelledError is
   not an Exception, so neither handler catches it. *)
Cancel ==
  /\ pc \in {"Listing", "Fetching", "Classifying"}
  /\ inflight' = {}
  /\ pc' = "Cancelled"
  /\ error' = "CancelledError"
  /\ UNCHANGED <<gmail, messages, idx, email_result, email_info, emails,
                 spam_count, not_spam_count, results, listCalls,
                 fetchCalls, classifyCalls, outcome>>

Next ==
  \/ NotConfigured
  \/ ListStart
  \/ ListRaise
  \/ \E list_result \in ListResults : ListReturn(list_result)
  \/ SkipEntry
  \/ FetchStart
  \/ FetchRaise
  \/ \E r \in MessageResults : FetchReturn(Concrete(r))
  \/ ClassifyRaise
  \/ \E is_spam \in BOOLEAN : ClassifyReturn(is_spam)
  \/ LoopExit
  \/ Summarize
  \/ Cancel

Spec == Init /\ [][Next]_vars

(* ---- definitions used by the properties -------------------------------- *)

Failures == {"fetch_failed", "invalid", "classify_failed"}

Settled == Failures \cup {"no_id", "recorded"}

NumWith(S) == Cardinality({i \in DOMAIN outcome : outcome[i] \in S})

ListedIds == [i \in 1..Len(messages) |-> EmailId(i)]

SummaryIds == [i \in 1..Len(results.emails) |-> results.emails[i].email_id]

InSummary(id) == \E j \in 1..Len(results.emails) : results.emails[j].email_id = id

RECURSIVE IsSubseq(_, _)
IsSubseq(s, t) ==
  IF Len(s) = 0 THEN TRUE
  ELSE IF Len(t) = 0 THEN FALSE
  ELSE IF Head(s) = Head(t) THEN IsSubseq(Tail(s), Tail(t))
  ELSE IsSubseq(s, Tail(t))

RECURSIVE RecordedFrom(_)
RecordedFrom(i) ==
  IF i > Len(messages) THEN <<>>
  ELSE (IF outcome[i] = "recorded" THEN <<EmailId(i)>> ELSE <<>>)
       \o RecordedFrom(i + 1)

Returned == pc = "Done"

ReturnedAfterLoop == pc = "Done" /\ messages # <<>>

(* ---- C1 ----------------------------------------------------------------- *)

(* C1: every returned summary has spam_count + not_spam_count equal to
   total_processed, and total_processed equal to the length of emails,
   whatever was listed and whichever per-message calls failed. *)
C1_CountsAddUp ==
  Returned =>
    /\ results.spam_count + results.not_spam_count = results.total_processed
    /\ results.total_processed = Len(results.emails)

C1_Witness ==
  /\ ReturnedAfterLoop
  /\ Len(messages) = 2
  /\ outcome[1] = "classify_failed"
  /\ outcome[2] = "recorded"
  /\ results.not_spam_count = 1

(* ---- C2 ----------------------------------------------------------------- *)

(* C2: an empty listing returns at once, without any fetch or
   classification call, the summary with the five fields total_processed 0,
   spam_count 0, not_spam_count 0, spam_percentage 0 and emails empty. *)
C2_EmptyListingSummary ==
  (pc = "Done" /\ messages = <<>>) =>
    /\ fetchCalls = <<>>
    /\ classifyCalls = <<>>
    /\ DOMAIN results = {"total_processed", "spam_count", "not_spam_count",
                         "spam_percentage", "emails"}
    /\ results.total_processed = 0
    /\ results.spam_count = 0
    /\ results.not_spam_count = 0
    /\ results.spam_percentage = 0
    /\ results.emails = <<>>

(* ---- C3 ----------------------------------------------------------------- *)

(* C3 as stated: with N listed entries of which M failed in the fetch call
   or the classification call, the returned summary has total_processed
   equal to N - M and the ids of the M failed entries are not in emails. *)
C3_Original ==
  ReturnedAfterLoop =>
    /\ results.total_processed =
         Len(messages) - NumWith({"fetch_failed", "classify_failed"})
    /\ \A i \in DOMAIN outcome :
         outcome[i] \in {"fetch_failed", "classify_failed"}
           => ~InSummary(EmailId(i))

(* C3 as amended: per-message failures (in the fetch call, in building the
   record from a field that is not a string, or in the classification call)
   never end the run: no fatal error follows a per-message call, every entry
   is visited and every entry with an id is fetched once; the summary has
   total_processed equal to N - M - E, M the failed entries and E the
   entries without an id; the id of a failed entry is in emails only when
   another entry with the same id was recorded. *)
C3_SkipAndContinue ==
  /\ pc = "Failed" => fetchCalls = <<>>
  /\ ReturnedAfterLoop =>
       /\ error = "none"
       /\ \A i \in DOMAIN outcome : outcome[i] \in Settled
       /\ \A i \in DOMAIN outcome :
            EmailId(i) \notin {NoneVal, ""} => fetchCalls[i] = 1
       /\ results.total_processed =
            Len(messages) - NumWith(Failures) - NumWith({"no_id"})
       /\ \A i \in DOMAIN outcome :
            (outcome[i] \in Failures /\ InSummary(EmailId(i)))
              => \E k \in DOMAIN outcome :
                   /\ k # i
                   /\ outcome[k] = "recorded"
                   /\ EmailId(k) = EmailId(i)

C3_Witness ==
  /\ ReturnedAfterLoop
  /\ Len(messages) = 2
  /\ outcome[1] = "fetch_failed"
  /\ outcome[2] = "recorded"
  /\ results.total_processed = 1

(* ---- C4 ----------------------------------------------------------------- *)

(* C4: when the listing call fails the run ends in Failed with the error
   propagated: no summary exists, no fetch or classification call was made,
   and Failed is never left. *)
C4_ListingFailureIsFatal ==
  /\ [](error = "ListingError" =>
          /\ pc = "Failed"
          /\ results = EmptyDict
          /\ fetchCalls = <<>>
          /\ classifyCalls = <<>>
          /\ inflight = {})
  /\ [][pc = "Failed" => pc' = "Failed"]_vars

C4_Witness == error = "ListingError" /\ pc = "Failed" /\ listCalls = 1

(* ---- C5 ----------------------------------------------------------------- *)

(* C5: every returned summary carries spam_percentage, equal to
   spam_count / total_processed * 100 rounded to one decimal when
   total_processed > 0 and equal to 0 when total_processed = 0. *)
C5_SpamPercentage ==
  Returned =>
    /\ "spam_percentage" \in DOMAIN results
    /\ IF results.total_processed > 0
         THEN LET d == results.spam_percentage * results.total_processed
                       - 1000 * results.spam_count
              IN  2 * d <= results.total_processed
                  /\ -2 * d <= results.total_processed
         ELSE results.spam_percentage = 0

(* ---- C6 ----------------------------------------------------------------- *)

(* C6: when the fetch call returns and every field that is present is a
   string, the message goes on to classification with subject, from and
   snippet taken from the result, a missing one replaced by "(no subject)",
   "unknown" and "" respectively; the record appended after classification
   and its projection in the summary carry these values. *)
C6_MissingFieldsDefault ==
  /\ [][/\ (/\ pc = "Fetching"
            /\ outcome'[idx] \in {"fetched", "invalid"}
            /\ \A k \in DOMAIN email_result' : email_result'[k] # NoneVal)
           => /\ pc' = "Classifying"
              /\ outcome'[idx] = "fetched"
              /\ classifyCalls'[idx] = 1
              /\ email_info'.subject =
                   (IF "subject" \in DOMAIN email_result'
                      THEN email_result'.subject ELSE "(no subject)")
              /\ email_info'.from_address =
                   (IF "from" \in DOMAIN email_result'
                      THEN email_result'.from ELSE "unknown")
              /\ email_info'.snippet =
                   (IF "snippet" \in DOMAIN email_result'
                      THEN email_result'.snippet ELSE "")
        /\ (pc = "Classifying" /\ pc' = "Loop" /\ outcome'[idx] = "recorded")
           => /\ Len(emails') = Len(emails) + 1
              /\ \E j \in 1..Len(emails') :
                   /\ emails'[j].subject = email_info.subject
                   /\ emails'[j].from_address = email_info.from_address
                   /\ emails'[j].snippet = email_info.snippet
                   /\ emails'[j].email_id = email_info.email_id
       ]_vars
  /\ [](ReturnedAfterLoop =>
          \A j \in 1..Len(emails) :
            /\ results.emails[j].subject = emails[j].subject
            /\ results.emails[j].from = emails[j].from_address)

C6_Witness ==
  /\ ReturnedAfterLoop
  /\ Len(messages) = 1
  /\ DOMAIN email_result = {"snippet"}
  /\ Len(results.emails) = 1
  /\ results.emails[1].subject = "(no subject)"
  /\ results.emails[1].from = "unknown"

(* ---- C7 ----------------------------------------------------------------- *)

(* C7: at most one external call is in flight, it is the call of the
   current position, and once a call for an entry was issued every earlier
   entry is settled (recorded or skipped) with none of its calls in
   flight. *)
C7_Sequential ==
  /\ Cardinality(inflight) <= 1
  /\ pc = "Listing" => inflight = {ListCall}
  /\ pc = "Fetching" => inflight = {GetCall(idx)}
  /\ pc = "Classifying" => inflight = {LlmCall(idx)}
  /\ pc \notin {"Listing", "Fetching", "Classifying"} => inflight = {}
  /\ \A i \in DOMAIN fetchCalls :
       (fetchCalls[i] > 0 \/ classifyCalls[i] > 0) =>
         \A k \in 1..(i - 1) :
           /\ outcome[k] \in Settled
           /\ GetCall(k) \notin inflight
           /\ LlmCall(k) \notin inflight

C7_Witness ==
  /\ pc = "Fetching"
  /\ idx = 2
  /\ outcome[1] = "recorded"
  /\ inflight = {GetCall(2)}

(* ---- C8 ----------------------------------------------------------------- *)

(* C8: the ids of the returned emails are the ids of the recorded entries
   in listing order, hence a subsequence of the listed ids. *)
C8_ListingOrderPreserved ==
  ReturnedAfterLoop =>
    /\ SummaryIds = RecordedFrom(1)
    /\ IsSubseq(SummaryIds, ListedIds)

C8_Witness ==
  /\ ReturnedAfterLoop
  /\ Len(results.emails) = 2
  /\ results.emails[1].email_id = "b"
  /\ results.emails[2].email_id = "a"

(* ---- C9 ----------------------------------------------------------------- *)

(* C9: at a list entry whose id is missing or empty the only step is the
   skip: no call is issued or counted, the counts and emails are unchanged
   and the loop moves to the next entry. *)
C9_EntryWithoutIdSkipped ==
  [][(/\ pc = "Loop"
      /\ idx <= Len(messages)
      /\ EmailId(idx) \in {NoneVal, ""})
     => /\ fetchCalls' = fetchCalls
        /\ classifyCalls' = classifyCalls
        /\ inflight' = inflight
        /\ spam_count' = spam_count
        /\ not_spam_count' = not_spam_count
        /\ emails' = emails
        /\ idx' = idx + 1
        /\ pc' = "Loop"]_vars

C9_Witness ==
  /\ ReturnedAfterLoop
  /\ Len(messages) = 2
  /\ messages[1] = [id |-> ""]
  /\ outcome[1] = "no_id"
  /\ fetchCalls[1] = 0
  /\ outcome[2] = "recorded"

(* ---- C10 ---------------------------------------------------------------- *)

(* C10: the listing call is made at most once; for each entry the fetch
   call and the classification call are made at most once, the latter only
   after the entry's fetch returned. *)
C10_NoRetry ==
  /\ listCalls <= 1
  /\ \A i \in DOMAIN fetchCalls :
       /\ fetchCalls[i] <= 1
       /\ classifyCalls[i] <= 1
       /\ classifyCalls[i] = 1 =>
            /\ fetchCalls[i] = 1
            /\ outcome[i] \in {"fetched", "classify_failed", "recorded"}
       /\ outcome[i] \in {"fetch_failed", "invalid"} =>
            fetchCalls[i] = 1 /\ classifyCalls[i] = 0

C10_Witness ==
  /\ ReturnedAfterLoop
  /\ Len(messages) = 2
  /\ outcome[1] = "fetch_failed"
  /\ outcome[2] = "classify_failed"
  /\ fetchCalls = <<1, 1>>
  /\ classifyCalls = <<0, 1>>

====
